---- MODULE Spec2Model ----
(***************************************************************************)
(* NrcTicketUtil (src/nrcTicketUtil/index.ts): a Vencord plugin that plays *)
(* a sound when a channel appears in, or is moved into, a watched category *)
(* and when a message arrives in a channel claimed by the user.            *)
(*                                                                         *)
(* The module state (lastNewChannelSoundAt, lastMessageSoundAt,            *)
(* parentByChannelId, snapCategoryId, audioCtx), the settings store and    *)
(* the host stores the handlers read are variables; every Flux handler is  *)
(* one atomic action, since the handlers run to completion on one thread.  *)
(*                                                                         *)
(* Strings the code trims or searches are sequences of one-character       *)
(* strings.  Times are milliseconds scaled so that the cooldown slider's   *)
(* step is CooldownStep; volumes are in units of 1/10000.                  *)
(***************************************************************************)
EXTENDS Integers, Sequences, FiniteSets, TLC

VARIABLES
    settings,               \* settings.store
    lastNewChannelSoundAt,  \* index.ts:165
    lastMessageSoundAt,     \* index.ts:166
    parentByChannelId,      \* index.ts:168, a Map as a function on its keys
    snapCategoryId,         \* index.ts:169
    audioCtx,               \* index.ts:164, TRUE once the context is created
    clock,                  \* what Date.now() returns
    host,                   \* ChannelStore, GuildChannelStore, UserStore, ...
    handler,                \* which step ran last
    event,                  \* the payload the last handler was given
    plays,                  \* the playSound calls of the last step
    effects,                \* the audio the last step started
    lookups,                \* the directory lookups the last step made
    subscribed,             \* start() has subscribed the handlers
    turn,                   \* parity of the steps taken: no handler run stutters
    seenCategoryId,         \* history: the watched category at the last handler run
    lastReported,           \* history: the parent each channel's last event reported
    args                    \* the last call of a function on its own

vars == <<settings, lastNewChannelSoundAt, lastMessageSoundAt, parentByChannelId,
          snapCategoryId, audioCtx, clock, host, handler, event, plays, effects,
          lookups, subscribed, turn, seenCategoryId, lastReported, args>>

progVars == <<lastNewChannelSoundAt, lastMessageSoundAt, parentByChannelId,
              snapCategoryId, audioCtx>>

history == <<seenCategoryId, lastReported>>

-----------------------------------------------------------------------------
(* Bounds *)

MaxTime == 2        \* Date.now() ranges over 0..MaxTime
MaxMarker == 1      \* cooldown slider markers 0..MaxMarker, times CooldownStep
MaxArg == 3         \* shouldThrottle is tried on now, last in 0..MaxArg

(* Program constants *)

CooldownStep == 2   \* the slider step (250 ms) in model time units
WordBits == 4       \* width of the ToInt32 conversion, scaled down from 32
CategoryType == 4   \* channel type of a category
VolumeOne == 10000  \* volume 1.0
BeepFloor == 1      \* volume 0.0001

-----------------------------------------------------------------------------
(* Values *)

Null == <<"null">>          \* null / undefined / a missing field
Str(v) == IF v = Null THEN <<>> ELSE v      \* String(v ?? "")
Truthy(s) == s # Null /\ s # <<>>           \* a non-empty string

RECURSIVE TrimStart(_)
TrimStart(s) == IF s # <<>> /\ Head(s) = " " THEN TrimStart(Tail(s)) ELSE s

RECURSIVE TrimEnd(_)
TrimEnd(s) ==
    IF s # <<>> /\ s[Len(s)] = " " THEN TrimEnd(SubSeq(s, 1, Len(s) - 1)) ELSE s

Trim(s) == TrimEnd(TrimStart(s))            \* String.prototype.trim

Includes(hay, needle) ==                    \* String.prototype.includes
    \E i \in 1..(Len(hay) + 1) :
        /\ i + Len(needle) - 1 <= Len(hay)
        /\ SubSeq(hay, i, i + Len(needle) - 1) = needle

Max(a, b) == IF a >= b THEN a ELSE b
Min(a, b) == IF a <= b THEN a ELSE b

ToInt32(x) ==                               \* x | 0 on an integer x
    LET m == 2 ^ WordBits
        r == x % m
    IN  IF r >= m \div 2 THEN r - m ELSE r

CatA == <<"A">>
CatB == <<"B">>
ChanX == <<"X">>
ChanY == <<"Y">>
Emoji == <<"#">>            \* the default claim emoji
UserMe == <<"m">>
UserOther == <<"o">>
Url == <<"u">>

-----------------------------------------------------------------------------
(* Settings (index.ts:20-162) *)

DefaultSettings ==
    [ enabled                    |-> TRUE,
      categoryId                 |-> CatA,
      claimEmoji                 |-> Emoji,
      claimWhere                 |-> "either",
      claimOnlyInWatchedCategory |-> TRUE,
      playOnNewChannel           |-> TRUE,
      playOnMovedIntoCategory    |-> TRUE,
      playOnMessageInClaimed     |-> TRUE,
      onlyWhenUnfocused          |-> FALSE,
      muteWhenViewingChannel     |-> TRUE,
      ignoreBots                 |-> TRUE,
      ignoreSelf                 |-> TRUE,
      newChannelSound            |-> "beep",
      newChannelSoundUrl         |-> <<>>,
      newChannelVolume           |-> 6000,
      newChannelCooldownMs       |-> CooldownStep,
      messageSound               |-> "chime",
      messageSoundUrl            |-> <<>>,
      messageVolume              |-> 7000,
      messageCooldownMs          |-> CooldownStep ]

SoundKind == {"none", "beep", "chime", "custom"}
ClaimWhere == {"name", "topic", "either"}
CooldownMarkers == {m * CooldownStep : m \in 0..MaxMarker}   \* makeRange(0, 5000, 250)

\* The values the settings UI can store under a key.
SettingValues(k) ==
    CASE k \in {"enabled", "claimOnlyInWatchedCategory", "playOnNewChannel",
                "playOnMovedIntoCategory", "playOnMessageInClaimed",
                "onlyWhenUnfocused", "muteWhenViewingChannel", "ignoreBots",
                "ignoreSelf"} -> BOOLEAN
      [] k = "categoryId" -> {<<>>, CatA, <<" ">> \o CatA, CatB}
      [] k = "claimEmoji" -> {<<>>, Emoji, Emoji \o <<" ">>}
      [] k = "claimWhere" -> ClaimWhere
      [] k \in {"newChannelSound", "messageSound"} -> SoundKind
      [] k \in {"newChannelSoundUrl", "messageSoundUrl"} -> {<<>>, <<" ">>, Url}
      [] k \in {"newChannelVolume", "messageVolume"} -> {0, 6000, VolumeOne}
      [] k \in {"newChannelCooldownMs", "messageCooldownMs"} -> CooldownMarkers

-----------------------------------------------------------------------------
(* Host objects.  An object the code reads through ?. is a record with     *)
(* every field; a missing object is the record whose fields are all Null.  *)

Guild == <<"G">>
Nothing == [id |-> Null, parent_id |-> Null, type |-> 0]
Channel(id, parent, type) == [id |-> id, parent_id |-> parent, type |-> type]

\* ChannelStore.getChannel(id): undefined for an id the store does not know
GetChannel(id) ==
    IF id \in DOMAIN host.channelStore THEN host.channelStore[id]
    ELSE [found |-> FALSE, guild_id |-> Null, parent_id |-> Null,
          name |-> Null, topic |-> Null]

StoredChannel(guild, parent, name, topic) ==
    [found |-> TRUE, guild_id |-> guild, parent_id |-> parent,
     name |-> name, topic |-> topic]

\* GuildChannelStore.getChannels(guildId): shape "flat" is {SELECTABLE: [...]},
\* "nested" is {channels: {SELECTABLE: [...]}}, "null" is no data and "other"
\* is an object with neither array.
GetChannels(guildId) ==
    IF guildId \in DOMAIN host.guildChannelStore THEN host.guildChannelStore[guildId]
    ELSE [shape |-> "null", selectable |-> <<>>]

\* An element of SELECTABLE: a channel, or a wrapper {channel: ...} around one.
Bare(ch) == [channel |-> Nothing, id |-> ch.id, parent_id |-> ch.parent_id]
Wrapped(ch) == [channel |-> ch, id |-> Null, parent_id |-> Null]

-----------------------------------------------------------------------------
(* Helpers of the snapshot (index.ts:185-233) *)

EmptyMap == [k \in {} |-> Null]                               \* new Map()
MapGetMiss(m, k) == Null                   \* a bug: the lookup always misses
MapGet(m, k) == IF k \in DOMAIN m THEN m[k] ELSE Null         \* m.get(k) ?? null
MapSet(m, k, v) == [c \in DOMAIN m \cup {k} |-> IF c = k THEN v ELSE m[c]]

extractChannel(action) ==
    IF Truthy(action.channel.id) THEN action.channel
    ELSE IF Truthy(action.updatedChannel.id) THEN action.updatedChannel
    ELSE Nothing

getGuildIdForCategory(categoryId) ==
    LET gid == GetChannel(categoryId).guild_id
    IN  IF ~Truthy(gid) THEN Null ELSE gid

\* e?.channel ?? e
Unwrap(e) == IF e.channel # Nothing THEN e.channel ELSE Channel(e.id, e.parent_id, 0)

getGuildChannels(guildId) ==
    LET data == GetChannels(guildId)
    IN  IF data.shape \in {"flat", "nested"}
        THEN [i \in 1..Len(data.selectable) |-> Unwrap(data.selectable[i])]
        ELSE <<>>

\* chans.forEach(ch => { if (!ch?.id) return; map.set(ch.id, ch.parent_id ?? null) })
RECURSIVE RecordAll(_, _)
RecordAll(m, chans) ==
    IF chans = <<>> THEN m
    ELSE LET ch == Head(chans)
         IN  RecordAll(IF Truthy(ch.id) THEN MapSet(m, ch.id, ch.parent_id) ELSE m,
                       Tail(chans))

\* A bug that rebuilds without recording which category it rebuilt for.
RefreshKeepsId ==
    LET categoryId == Trim(Str(settings.categoryId))
        keep == [cat |-> snapCategoryId, map |-> parentByChannelId, lookups |-> <<>>]
        guildId == getGuildIdForCategory(categoryId)
    IN  IF categoryId = <<>> THEN keep
        ELSE IF categoryId = snapCategoryId THEN keep
        ELSE IF guildId = Null
             THEN [cat |-> snapCategoryId, map |-> EmptyMap, lookups |-> <<"getChannel">>]
             ELSE [cat |-> snapCategoryId,
                   map |-> RecordAll(EmptyMap, getGuildChannels(guildId)),
                   lookups |-> <<"getChannel", "getChannels">>]

\* A bug that rebuilds without clearing first.
RefreshWithoutClear ==
    LET categoryId == Trim(Str(settings.categoryId))
        keep == [cat |-> snapCategoryId, map |-> parentByChannelId, lookups |-> <<>>]
        guildId == getGuildIdForCategory(categoryId)
    IN  IF categoryId = <<>> THEN keep
        ELSE IF categoryId = snapCategoryId THEN keep
        ELSE IF guildId = Null
             THEN [cat |-> categoryId, map |-> parentByChannelId,
                   lookups |-> <<"getChannel">>]
             ELSE [cat |-> categoryId,
                   map |-> RecordAll(parentByChannelId, getGuildChannels(guildId)),
                   lookups |-> <<"getChannel", "getChannels">>]

\* A bug that forgets the "unchanged since the last refresh" test.
RefreshAlways ==
    LET categoryId == Trim(Str(settings.categoryId))
        keep == [cat |-> snapCategoryId, map |-> parentByChannelId, lookups |-> <<>>]
        guildId == getGuildIdForCategory(categoryId)
    IN  IF categoryId = <<>> THEN keep
        ELSE IF guildId = Null
             THEN [cat |-> categoryId, map |-> EmptyMap, lookups |-> <<"getChannel">>]
             ELSE [cat |-> categoryId,
                   map |-> RecordAll(EmptyMap, getGuildChannels(guildId)),
                   lookups |-> <<"getChannel", "getChannels">>]

\* refreshSnapshotIfNeeded(): the snapCategoryId and the map it leaves, and the
\* store lookups it makes.
refreshSnapshotIfNeeded ==
    LET categoryId == Trim(Str(settings.categoryId))
        keep == [cat |-> snapCategoryId, map |-> parentByChannelId, lookups |-> <<>>]
        guildId == getGuildIdForCategory(categoryId)
    IN  IF categoryId = <<>> THEN keep
        ELSE IF categoryId = snapCategoryId THEN keep
        ELSE IF guildId = Null
             THEN [cat |-> categoryId, map |-> EmptyMap, lookups |-> <<"getChannel">>]
             ELSE [cat |-> categoryId,
                   map |-> RecordAll(EmptyMap, getGuildChannels(guildId)),
                   lookups |-> <<"getChannel", "getChannels">>]

-----------------------------------------------------------------------------
(* Throttle (index.ts:235-238) *)

\* A bug that lets an alert through one time unit early.
ThrottleOffByOne(now, last, cooldownMs) ==
    now - last < Max(0, ToInt32(cooldownMs)) - 1

\* A bug that skips the comparison when there is no cooldown.
ThrottleZeroShortcut(now, last, cooldownMs) ==
    LET cd == Max(0, ToInt32(cooldownMs))
    IN  cd > 0 /\ now - last < cd

shouldThrottle(now, last, cooldownMs) ==
    LET cd == Max(0, ToInt32(cooldownMs))
    IN  now - last < cd

-----------------------------------------------------------------------------
(* Sound player (index.ts:240-313): the audio each call starts *)

Clamp(lo, x, hi) == Max(lo, Min(hi, x))

playCustom(url, volume) ==
    LET u == Trim(Str(url))
    IN  IF u = <<>> THEN <<>>
        ELSE << [sound |-> "audio", url |-> u, volume |-> Clamp(0, volume, VolumeOne)] >>

playBeep(volume) ==
    IF ~host.audioContext THEN <<>>
    ELSE << [sound |-> "sine", url |-> <<>>, volume |-> Clamp(BeepFloor, volume, VolumeOne)] >>

playChime(volume) ==
    IF ~host.audioContext THEN <<>>
    ELSE << [sound |-> "triangle", url |-> <<>>, volume |-> Clamp(BeepFloor, volume, VolumeOne)] >>

\* A bug that lets the kind "none" fall through to the beep.
playSoundNoneBeeps(kind, customUrl, volume) ==
    CASE kind = "custom" -> playCustom(customUrl, volume)
      [] kind = "chime"  -> playChime(volume)
      [] OTHER           -> playBeep(volume)

playSound(kind, customUrl, volume) ==
    CASE kind = "none"   -> <<>>
      [] kind = "custom" -> playCustom(customUrl, volume)
      [] kind = "beep"   -> playBeep(volume)
      [] kind = "chime"  -> playChime(volume)

\* audioCtx = audioCtx ?? new AudioCtx(), in playBeep and playChime
audioCtxAfter(kind) ==
    audioCtx \/ (kind \in {"beep", "chime"} /\ host.audioContext)

PlayCall(kind, url, volume) == [kind |-> kind, url |-> url, volume |-> volume]

-----------------------------------------------------------------------------
(* Claim classifier (index.ts:315-355) *)

channelTextForClaim(channel, where) ==
    LET name == Str(channel.name)
        topic == Str(channel.topic)
    IN  CASE where = "name"  -> name
          [] where = "topic" -> topic
          [] OTHER           -> name \o <<"\n">> \o topic

\* A bug that takes a channel the stores do not know for a claimed one.
isClaimedChannelUnknown(channelId) ==
    LET emoji == Trim(Str(settings.claimEmoji))
        ch == GetChannel(channelId)
        categoryId == Trim(Str(settings.categoryId))
        scoped == settings.claimOnlyInWatchedCategory
    IN  IF emoji = <<>> THEN FALSE
        ELSE IF ~ch.found THEN TRUE
        ELSE IF scoped /\ categoryId # <<>> /\ ch.parent_id # categoryId THEN FALSE
        ELSE Includes(channelTextForClaim(ch, settings.claimWhere), emoji)

\* A bug that forgets the scope of the claims.
isClaimedChannelUnscoped(channelId) ==
    LET emoji == Trim(Str(settings.claimEmoji))
        ch == GetChannel(channelId)
    IN  IF emoji = <<>> THEN FALSE
        ELSE IF ~ch.found THEN FALSE
        ELSE Includes(channelTextForClaim(ch, settings.claimWhere), emoji)

isClaimedChannel(channelId) ==
    LET emoji == Trim(Str(settings.claimEmoji))
        ch == GetChannel(channelId)
        categoryId == Trim(Str(settings.categoryId))
        scoped == settings.claimOnlyInWatchedCategory
    IN  IF emoji = <<>> THEN FALSE
        ELSE IF ~ch.found THEN FALSE
        ELSE IF scoped /\ categoryId # <<>> /\ ch.parent_id # categoryId THEN FALSE
        ELSE Includes(channelTextForClaim(ch, settings.claimWhere), emoji)

\* A bug that forgets the focus test.
shouldPlayMessageSoundFocusBlind(channelId) ==
    IF ~settings.playOnMessageInClaimed THEN FALSE
    ELSE IF ~isClaimedChannel(channelId) THEN FALSE
    ELSE IF settings.muteWhenViewingChannel /\ host.selectedChannelId = channelId THEN FALSE
    ELSE TRUE

shouldPlayMessageSound(channelId) ==
    IF ~settings.playOnMessageInClaimed THEN FALSE
    ELSE IF ~isClaimedChannel(channelId) THEN FALSE
    ELSE IF settings.onlyWhenUnfocused /\ host.hasFocus THEN FALSE
    ELSE IF settings.muteWhenViewingChannel /\ host.selectedChannelId = channelId THEN FALSE
    ELSE TRUE

-----------------------------------------------------------------------------
(* Event handlers (index.ts:357-459).  A handler runs to completion in one  *)
(* step; `handler`, `event`, `plays`, `effects` and `lookups` describe the  *)
(* step just taken.                                                         *)

NoEvent == [type |-> "none"]

\* A bug that keeps one timestamp for both kinds of alert.
LeavesSharedStamp(r, map, lastNew, lastMsg, calls) ==
    /\ snapCategoryId' = r.cat
    /\ parentByChannelId' = map
    /\ lookups' = r.lookups
    /\ lastNewChannelSoundAt' = Max(lastNew, lastMsg)
    /\ lastMessageSoundAt' = Max(lastNew, lastMsg)
    /\ plays' = calls
    /\ effects' = IF calls = <<>> THEN <<>>
                  ELSE playSound(calls[1].kind, calls[1].url, calls[1].volume)
    /\ audioCtx' = IF calls = <<>> THEN audioCtx ELSE audioCtxAfter(calls[1].kind)
    /\ turn' = 1 - turn

\* What a handler leaves behind: the snapshot, the two timestamps, and the
\* playSound calls it made (at most one).
Leaves(r, map, lastNew, lastMsg, calls) ==
    /\ snapCategoryId' = r.cat
    /\ parentByChannelId' = map
    /\ lookups' = r.lookups
    /\ lastNewChannelSoundAt' = lastNew
    /\ lastMessageSoundAt' = lastMsg
    /\ plays' = calls
    /\ effects' = IF calls = <<>> THEN <<>>
                  ELSE playSound(calls[1].kind, calls[1].url, calls[1].volume)
    /\ audioCtx' = IF calls = <<>> THEN audioCtx ELSE audioCtxAfter(calls[1].kind)
    /\ turn' = 1 - turn

\* A bug that drops the snapshot when a handler returns early.
UntouchedCleared == [cat |-> <<>>, map |-> EmptyMap, lookups |-> <<>>]

\* A handler that returns before touching anything.
Untouched == [cat |-> snapCategoryId, map |-> parentByChannelId, lookups |-> <<>>]

\* A bug that plays a new channel with the message sound.
NewChannelCallWithMessageSound ==
    PlayCall(settings.messageSound, Str(settings.messageSoundUrl),
             settings.messageVolume)

NewChannelCall ==
    PlayCall(settings.newChannelSound, Str(settings.newChannelSoundUrl),
             settings.newChannelVolume)

MessageCall ==
    PlayCall(settings.messageSound, Str(settings.messageSoundUrl),
             settings.messageVolume)

onChannelCreate(action) ==
    LET r == refreshSnapshotIfNeeded
        ch == extractChannel(action)
        categoryId == Trim(Str(settings.categoryId))
        now == clock
        cd == settings.newChannelCooldownMs
        map == MapSet(r.map, ch.id, ch.parent_id)
    IN  /\ subscribed
        /\ handler' = "onChannelCreate"
        /\ event' = action
        /\ UNCHANGED <<settings, clock, host, subscribed, args>>
        /\ IF ~settings.enabled
             THEN Leaves(Untouched, parentByChannelId, lastNewChannelSoundAt,
                         lastMessageSoundAt, <<>>)
           ELSE IF \/ ch = Nothing
                   \/ categoryId = <<>>
                   \/ ~settings.playOnNewChannel
                   \/ ch.parent_id # categoryId
                   \/ ch.type = CategoryType
             THEN Leaves(r, r.map, lastNewChannelSoundAt, lastMessageSoundAt, <<>>)
           ELSE IF shouldThrottle(now, lastNewChannelSoundAt, cd)
             THEN Leaves(r, map, lastNewChannelSoundAt, lastMessageSoundAt, <<>>)
           ELSE Leaves(r, map, now, lastMessageSoundAt, <<NewChannelCall>>)

\* A bug that forgets the type test of the update handler.
onChannelUpdateTypeBlind(action) ==
    LET r == refreshSnapshotIfNeeded
        ch == extractChannel(action)
        categoryId == Trim(Str(settings.categoryId))
        prevParent == MapGet(r.map, ch.id)
        nextParent == ch.parent_id
        map == MapSet(r.map, ch.id, nextParent)
    IN  /\ subscribed
        /\ handler' = "onChannelUpdate"
        /\ event' = action
        /\ UNCHANGED <<settings, clock, host, subscribed, args>>
        /\ IF ~settings.enabled
             THEN Leaves(Untouched, parentByChannelId, lastNewChannelSoundAt,
                         lastMessageSoundAt, <<>>)
           ELSE IF ch = Nothing \/ categoryId = <<>>
             THEN Leaves(r, r.map, lastNewChannelSoundAt, lastMessageSoundAt, <<>>)
           ELSE IF \/ ~settings.playOnMovedIntoCategory
                   \/ ~settings.playOnNewChannel
                   \/ prevParent = categoryId
                   \/ nextParent # categoryId
                   \/ shouldThrottle(clock, lastNewChannelSoundAt,
                                     settings.newChannelCooldownMs)
             THEN Leaves(r, map, lastNewChannelSoundAt, lastMessageSoundAt, <<>>)
           ELSE Leaves(r, map, clock, lastMessageSoundAt, <<NewChannelCall>>)

\* A bug that skips a move only when both toggles are off.
onChannelUpdateOneGate(action) ==
    LET r == refreshSnapshotIfNeeded
        ch == extractChannel(action)
        categoryId == Trim(Str(settings.categoryId))
        prevParent == MapGet(r.map, ch.id)
        nextParent == ch.parent_id
        map == MapSet(r.map, ch.id, nextParent)
    IN  /\ subscribed
        /\ handler' = "onChannelUpdate"
        /\ event' = action
        /\ UNCHANGED <<settings, clock, host, subscribed, args>>
        /\ IF ~settings.enabled
             THEN Leaves(Untouched, parentByChannelId, lastNewChannelSoundAt,
                         lastMessageSoundAt, <<>>)
           ELSE IF ch = Nothing \/ categoryId = <<>>
             THEN Leaves(r, r.map, lastNewChannelSoundAt, lastMessageSoundAt, <<>>)
           ELSE IF \/ ~settings.playOnMovedIntoCategory /\ ~settings.playOnNewChannel
                   \/ prevParent = categoryId
                   \/ nextParent # categoryId
                   \/ ch.type = CategoryType
                   \/ shouldThrottle(clock, lastNewChannelSoundAt,
                                     settings.newChannelCooldownMs)
             THEN Leaves(r, map, lastNewChannelSoundAt, lastMessageSoundAt, <<>>)
           ELSE Leaves(r, map, clock, lastMessageSoundAt, <<NewChannelCall>>)

onChannelUpdate(action) ==
    LET r == refreshSnapshotIfNeeded
        ch == extractChannel(action)
        categoryId == Trim(Str(settings.categoryId))
        prevParent == MapGet(r.map, ch.id)
        nextParent == ch.parent_id
        map == MapSet(r.map, ch.id, nextParent)
        now == clock
        cd == settings.newChannelCooldownMs
    IN  /\ subscribed
        /\ handler' = "onChannelUpdate"
        /\ event' = action
        /\ UNCHANGED <<settings, clock, host, subscribed, args>>
        /\ IF ~settings.enabled
             THEN Leaves(Untouched, parentByChannelId, lastNewChannelSoundAt,
                         lastMessageSoundAt, <<>>)
           ELSE IF ch = Nothing \/ categoryId = <<>>
             THEN Leaves(r, r.map, lastNewChannelSoundAt, lastMessageSoundAt, <<>>)
           ELSE IF \/ ~settings.playOnMovedIntoCategory
                   \/ ~settings.playOnNewChannel
                   \/ prevParent = categoryId
                   \/ nextParent # categoryId
                   \/ ch.type = CategoryType
             THEN Leaves(r, map, lastNewChannelSoundAt, lastMessageSoundAt, <<>>)
           ELSE IF shouldThrottle(now, lastNewChannelSoundAt, cd)
             THEN Leaves(r, map, lastNewChannelSoundAt, lastMessageSoundAt, <<>>)
           ELSE Leaves(r, map, now, lastMessageSoundAt, <<NewChannelCall>>)

\* A bug that forgets the bot test.
onMessageCreateBotsPlay(e) ==
    LET msg == e.message
        myId == host.currentUserId
        channelId == Str(e.channelId)
        skip ==
            \/ ~settings.enabled
            \/ e.type # "MESSAGE_CREATE"
            \/ e.optimistic
            \/ ~msg.present
            \/ msg.state = "SENDING"
            \/ settings.ignoreSelf /\ Truthy(myId) /\ msg.author.id = myId
            \/ channelId = <<>>
            \/ ~shouldPlayMessageSound(channelId)
            \/ shouldThrottle(clock, lastMessageSoundAt, settings.messageCooldownMs)
    IN  /\ subscribed
        /\ handler' = "onMessageCreate"
        /\ event' = e
        /\ UNCHANGED <<settings, clock, host, subscribed, args>>
        /\ IF skip
             THEN Leaves(Untouched, parentByChannelId, lastNewChannelSoundAt,
                         lastMessageSoundAt, <<>>)
           ELSE Leaves(Untouched, parentByChannelId, lastNewChannelSoundAt, clock,
                       <<MessageCall>>)

onMessageCreate(e) ==
    LET msg == e.message
        myId == host.currentUserId
        channelId == Str(e.channelId)
        now == clock
        cd == settings.messageCooldownMs
        skip ==
            \/ ~settings.enabled
            \/ e.type # "MESSAGE_CREATE"
            \/ e.optimistic
            \/ ~msg.present
            \/ msg.state = "SENDING"
            \/ settings.ignoreBots /\ msg.author.bot
            \/ settings.ignoreSelf /\ Truthy(myId) /\ msg.author.id = myId
            \/ channelId = <<>>
            \/ ~shouldPlayMessageSound(channelId)
    IN  /\ subscribed
        /\ handler' = "onMessageCreate"
        /\ event' = e
        /\ UNCHANGED <<settings, clock, host, subscribed, args>>
        /\ IF skip \/ shouldThrottle(now, lastMessageSoundAt, cd)
             THEN Leaves(Untouched, parentByChannelId, lastNewChannelSoundAt,
                         lastMessageSoundAt, <<>>)
           ELSE Leaves(Untouched, parentByChannelId, lastNewChannelSoundAt, now,
                       <<MessageCall>>)

\* start(): the snapshot is refreshed once before the handlers are subscribed
start ==
    LET r == refreshSnapshotIfNeeded
    IN  /\ ~subscribed
        /\ subscribed' = TRUE
        /\ handler' = "start"
        /\ event' = NoEvent
        /\ UNCHANGED <<settings, clock, host, args>>
        /\ Leaves(r, r.map, lastNewChannelSoundAt, lastMessageSoundAt, <<>>)

\* stop(): the handlers are unsubscribed; the module state stays
stop ==
    /\ subscribed
    /\ subscribed' = FALSE
    /\ handler' = "stop"
    /\ event' = NoEvent
    /\ plays' = <<>>
    /\ effects' = <<>>
    /\ lookups' = <<>>
    /\ turn' = 1 - turn
    /\ UNCHANGED <<progVars, settings, clock, host, args>>

-----------------------------------------------------------------------------
(* The environment: the user edits a setting, the clock moves, the host's   *)
(* stores, focus and selection change.                                      *)

Quiet ==
    /\ event' = NoEvent
    /\ plays' = <<>>
    /\ effects' = <<>>
    /\ lookups' = <<>>
    /\ turn' = 1 - turn
    /\ UNCHANGED progVars

ChangeSetting(k, v) ==
    /\ v # settings[k]
    /\ settings' = [settings EXCEPT ![k] = v]
    /\ handler' = "settings"
    /\ Quiet
    /\ UNCHANGED <<clock, host, subscribed, args>>

\* Date.now() is the wall clock: it advances, and the user or a time
\* synchronisation can set it back.
ClockAdvance ==
    /\ clock < MaxTime
    /\ clock' = clock + 1
    /\ handler' = "clock"
    /\ Quiet
    /\ UNCHANGED <<settings, host, subscribed, args>>

ClockSetBack(t) ==
    /\ t < clock
    /\ clock' = t
    /\ handler' = "clock"
    /\ Quiet
    /\ UNCHANGED <<settings, host, subscribed, args>>

HostChange(h) ==
    /\ h # host
    /\ host' = h
    /\ handler' = "host"
    /\ Quiet
    /\ UNCHANGED <<settings, clock, subscribed, args>>

-----------------------------------------------------------------------------
(* Hosts and events the specifications draw from *)

Name == <<"t">>

\* Both categories belong to the guild; X lies under B and Y under A, and X
\* carries the claim emoji in its topic.
Stores ==
    (CatA :> StoredChannel(Guild, Null, CatA, Null)) @@
    (CatB :> StoredChannel(Guild, Null, CatB, Null)) @@
    (ChanX :> StoredChannel(Guild, CatB, Name, Emoji)) @@
    (ChanY :> StoredChannel(Guild, CatA, Name \o Emoji, Null))

Listing ==
    << Bare(Channel(ChanX, CatB, 0)), Wrapped(Channel(ChanY, CatA, 0)),
       Bare(Nothing) >>

HostFlat ==
    [ channelStore      |-> Stores,
      guildChannelStore |-> (Guild :> [shape |-> "flat", selectable |-> Listing]),
      currentUserId     |-> UserMe,
      hasFocus          |-> FALSE,
      selectedChannelId |-> Null,
      audioContext      |-> TRUE ]

\* The same guild answered in the nested shape, after X has moved under A.
HostNested ==
    [ HostFlat EXCEPT
        !.channelStore = (ChanX :> StoredChannel(Guild, CatA, Name, Emoji)) @@ Stores,
        !.guildChannelStore =
            (Guild :> [shape |-> "nested",
                       selectable |-> << Wrapped(Channel(ChanX, CatA, 0)) >>]) ]

\* The stores before the guild is loaded: no category resolves.
HostUnloaded ==
    [ HostFlat EXCEPT
        !.channelStore = [k \in {} |-> Null],
        !.guildChannelStore = [k \in {} |-> Null] ]

SnapshotHosts == {HostFlat, HostNested, HostUnloaded}

ChannelAction(type, ch, upd) == [type |-> type, channel |-> ch, updatedChannel |-> upd]

\* The channels an event carries: X under no, one or the other category, and
\* a category-typed channel.
EventChannels ==
    { Channel(ChanX, p, 0) : p \in {Null, CatA, CatB} } \cup
    { Channel(ChanX, CatA, CategoryType) }

ChannelActions(type) ==
    { ChannelAction(type, ch, Nothing) : ch \in EventChannels } \cup
    { ChannelAction(type, Nothing, Channel(ChanX, CatA, 0)),
      ChannelAction(type, Nothing, Nothing) }

NoArgs == [now |-> 0, last |-> 0, cooldownMs |-> 0, called |-> FALSE, result |-> FALSE]

\* The module as loaded (index.ts:164-169), before start().
Loaded ==
    /\ lastNewChannelSoundAt = 0
    /\ lastMessageSoundAt = 0
    /\ parentByChannelId = EmptyMap
    /\ snapCategoryId = <<>>
    /\ audioCtx = FALSE
    /\ subscribed = FALSE
    /\ handler = "load"
    /\ event = NoEvent
    /\ plays = <<>>
    /\ effects = <<>>
    /\ lookups = <<>>
    /\ turn = 0
    /\ seenCategoryId = Null
    /\ lastReported = EmptyMap
    /\ args = NoArgs

-----------------------------------------------------------------------------
(* SpecSnapshot: the channel handlers under changes of the watched         *)
(* category, of `enabled` and of the host's stores.  The cooldown is 0 and *)
(* the clock stands still, so no alert is throttled.  seenCategoryId       *)
(* records the trimmed categoryId of the last run of a channel handler     *)
(* with the plugin enabled.                                                *)

SnapshotKeys == {"enabled", "categoryId"}

InitSnapshot ==
    /\ Loaded
    /\ settings = [DefaultSettings EXCEPT !.newChannelSound = "custom",
                                          !.newChannelSoundUrl = Url,
                                          !.newChannelCooldownMs = 0]
    /\ clock = 0
    /\ host = HostFlat

Seen == IF settings.enabled THEN Trim(Str(settings.categoryId)) ELSE seenCategoryId

NextSnapshot ==
    \/ start /\ UNCHANGED history
    \/ stop /\ UNCHANGED history
    \/ \E a \in ChannelActions("CHANNEL_CREATE") :
           onChannelCreate(a) /\ seenCategoryId' = Seen /\ UNCHANGED lastReported
    \/ \E a \in ChannelActions("CHANNEL_UPDATE") :
           onChannelUpdate(a) /\ seenCategoryId' = Seen /\ UNCHANGED lastReported
    \/ \E k \in SnapshotKeys : \E v \in SettingValues(k) :
           ChangeSetting(k, v) /\ UNCHANGED history
    \/ \E h \in SnapshotHosts : HostChange(h) /\ UNCHANGED history

SpecSnapshot == InitSnapshot /\ [][NextSnapshot]_vars

-----------------------------------------------------------------------------
(* SpecMoves: the channel handlers under changes of the watched category   *)
(* and of the two new-channel toggles, with a moving clock and a cooldown  *)
(* of one slider step.                                                     *)

MovesKeys == {"categoryId", "playOnNewChannel", "playOnMovedIntoCategory"}

InitMoves ==
    /\ Loaded
    /\ settings = [DefaultSettings EXCEPT !.newChannelSound = "custom",
                                          !.newChannelSoundUrl = Url]
    /\ clock = 0
    /\ host = HostFlat

NextMoves ==
    \/ start /\ UNCHANGED history
    \/ \E a \in ChannelActions("CHANNEL_CREATE") :
           onChannelCreate(a) /\ UNCHANGED history
    \/ \E a \in ChannelActions("CHANNEL_UPDATE") :
           onChannelUpdate(a) /\ UNCHANGED history
    \/ \E k \in MovesKeys : \E v \in SettingValues(k) :
           ChangeSetting(k, v) /\ UNCHANGED history
    \/ \E h \in {HostFlat, HostUnloaded} : HostChange(h) /\ UNCHANGED history
    \/ ClockAdvance /\ UNCHANGED history
    \/ \E t \in 0..MaxTime : ClockSetBack(t) /\ UNCHANGED history

SpecMoves == InitMoves /\ [][NextMoves]_vars

-----------------------------------------------------------------------------
(* Spec: the three handlers under changes of the sounds and the cooldowns, *)
(* with a clock that advances and can be set back, and a host with or      *)
(* without an AudioContext.  The watched category stays CatA.              *)

MessageEvent(type, optimistic, present, state, authorId, bot, channelId) ==
    [ type       |-> type,
      optimistic |-> optimistic,
      message    |-> [present |-> present, state |-> state,
                      author |-> [id |-> authorId, bot |-> bot]],
      channelId  |-> channelId ]

\* A confirmed message of another user in Y, which is claimed.
GoodMessage ==
    MessageEvent("MESSAGE_CREATE", FALSE, TRUE, "SENT", UserOther, FALSE, ChanY)

MessageEvents ==
    { GoodMessage,
      [GoodMessage EXCEPT !.optimistic = TRUE],
      [GoodMessage EXCEPT !.message.author.bot = TRUE],
      [GoodMessage EXCEPT !.message.author.id = UserMe],
      [GoodMessage EXCEPT !.channelId = ChanX] }

HostNoAudio == [HostFlat EXCEPT !.audioContext = FALSE]

AlertValues(k) ==
    CASE k = "newChannelSoundUrl" -> {<<" ">>, Url}
      [] OTHER -> SettingValues(k)

AlertKeys ==
    {"newChannelSound", "newChannelSoundUrl", "newChannelCooldownMs",
     "messageCooldownMs"}

AlertChannelActions(type) ==
    { ChannelAction(type, Channel(ChanX, p, 0), Nothing) : p \in {CatA, CatB} }

Init ==
    /\ Loaded
    /\ settings = [DefaultSettings EXCEPT !.newChannelSoundUrl = Url]
    /\ clock = 0
    /\ host \in {HostFlat, HostNoAudio}

Next ==
    \/ start /\ UNCHANGED history
    \/ \E a \in AlertChannelActions("CHANNEL_CREATE") :
           onChannelCreate(a) /\ UNCHANGED history
    \/ \E a \in AlertChannelActions("CHANNEL_UPDATE") :
           onChannelUpdate(a) /\ UNCHANGED history
    \/ \E e \in MessageEvents : onMessageCreate(e) /\ UNCHANGED history
    \/ \E k \in AlertKeys : \E v \in AlertValues(k) :
           ChangeSetting(k, v) /\ UNCHANGED history
    \/ ClockAdvance /\ UNCHANGED history
    \/ \E t \in 0..MaxTime : ClockSetBack(t) /\ UNCHANGED history

Spec == Init /\ [][Next]_vars

-----------------------------------------------------------------------------
(* SpecToggles: the channel handlers under changes of the two new-channel  *)
(* toggles alone: the plugin stays enabled, the watched category stays     *)
(* CatA, the cooldown is 0 and the clock stands still.  lastReported       *)
(* records, for each channel, the parent its last delivered event carried. *)
(* The events carry X, a text channel, under no, one or the other category.*)

ToggleKeys == {"playOnNewChannel", "playOnMovedIntoCategory"}

ToggleChannelActions(type) ==
    { ChannelAction(type, Channel(ChanX, p, 0), Nothing) : p \in {Null, CatA, CatB} } \cup
    { ChannelAction(type, Nothing, Channel(ChanX, CatA, 0)),
      ChannelAction(type, Nothing, Nothing) }

Reports(action) ==
    LET ch == extractChannel(action)
    IN  IF Truthy(ch.id) THEN MapSet(lastReported, ch.id, ch.parent_id)
        ELSE lastReported

InitToggles ==
    /\ Loaded
    /\ settings = [DefaultSettings EXCEPT !.newChannelSound = "custom",
                                          !.newChannelSoundUrl = Url,
                                          !.newChannelCooldownMs = 0]
    /\ clock = 0
    /\ host = HostFlat

NextToggles ==
    \/ start /\ UNCHANGED history
    \/ \E a \in ToggleChannelActions("CHANNEL_CREATE") :
           onChannelCreate(a) /\ lastReported' = Reports(a) /\ UNCHANGED seenCategoryId
    \/ \E a \in ToggleChannelActions("CHANNEL_UPDATE") :
           onChannelUpdate(a) /\ lastReported' = Reports(a) /\ UNCHANGED seenCategoryId
    \/ \E k \in ToggleKeys : \E v \in SettingValues(k) :
           ChangeSetting(k, v) /\ UNCHANGED history

SpecToggles == InitToggles /\ [][NextToggles]_vars

-----------------------------------------------------------------------------
(* SpecMessages: the message handler under changes of `enabled` and of the *)
(* message toggles, of the window's focus and of the selected channel,     *)
(* with an advancing clock and a message cooldown of one slider step.      *)

MessageKeys ==
    {"enabled", "ignoreBots", "ignoreSelf", "onlyWhenUnfocused",
     "muteWhenViewingChannel", "playOnMessageInClaimed"}

\* Also a message still being sent, an event without a message, an event
\* of another type, an event without a channel id and a bot's message in X.
AllMessageEvents ==
    MessageEvents \cup
    { [GoodMessage EXCEPT !.message.state = "SENDING"],
      [GoodMessage EXCEPT !.message.present = FALSE],
      [GoodMessage EXCEPT !.type = "MESSAGE_UPDATE"],
      [GoodMessage EXCEPT !.channelId = Null],
      [GoodMessage EXCEPT !.message.author.bot = TRUE, !.channelId = ChanX] }

MessageHosts ==
    { [HostFlat EXCEPT !.hasFocus = f, !.selectedChannelId = c] :
          f \in BOOLEAN, c \in {Null, ChanY} }

InitMessages ==
    /\ Loaded
    /\ settings = DefaultSettings
    /\ clock = 0
    /\ host = HostFlat

NextMessages ==
    \/ start /\ UNCHANGED history
    \/ \E e \in AllMessageEvents : onMessageCreate(e) /\ UNCHANGED history
    \/ \E k \in MessageKeys : \E v \in SettingValues(k) :
           ChangeSetting(k, v) /\ UNCHANGED history
    \/ \E h \in MessageHosts : HostChange(h) /\ UNCHANGED history
    \/ ClockAdvance /\ UNCHANGED history

SpecMessages == InitMessages /\ [][NextMessages]_vars

-----------------------------------------------------------------------------
(* SpecClaimed: isClaimedChannel called on its own, on X, on Y and on a    *)
(* channel the stores do not know, under every claim setting, every        *)
(* watched category and three states of the stores.                        *)

ChanZ == <<"Z">>

ClaimKeys == {"claimEmoji", "claimWhere", "claimOnlyInWatchedCategory", "categoryId"}

CallIsClaimedChannel(channelId) ==
    /\ args' = [channelId |-> channelId, called |-> TRUE,
                result |-> isClaimedChannel(channelId)]
    /\ handler' = "isClaimedChannel"
    /\ turn' = 1 - turn
    /\ UNCHANGED <<progVars, settings, clock, host, event, plays, effects, lookups,
                   subscribed, history>>

InitClaimed ==
    /\ Loaded
    /\ settings = DefaultSettings
    /\ clock = 0
    /\ host = HostFlat

NextClaimed ==
    \/ \E c \in {ChanX, ChanY, ChanZ} : CallIsClaimedChannel(c)
    \/ \E k \in ClaimKeys : \E v \in SettingValues(k) :
           ChangeSetting(k, v) /\ UNCHANGED history
    \/ \E h \in SnapshotHosts : HostChange(h) /\ UNCHANGED history

SpecClaimed == InitClaimed /\ [][NextClaimed]_vars

-----------------------------------------------------------------------------
(* SpecLookups: the three handlers under changes of `enabled`, of          *)
(* ignoreSelf and of the watched category, on stores that are loaded, not  *)
(* loaded, or loaded without a current user.  Both cooldowns are 0 and the *)
(* clock stands still.                                                     *)

LookupKeys == {"enabled", "ignoreSelf", "categoryId"}

\* UserStore.getCurrentUser() returns nothing.
HostNoUser == [HostFlat EXCEPT !.currentUserId = Null]

LookupHosts == {HostFlat, HostUnloaded, HostNoUser}

InitLookups ==
    /\ Loaded
    /\ settings = [DefaultSettings EXCEPT !.newChannelSound = "custom",
                                          !.newChannelSoundUrl = Url,
                                          !.newChannelCooldownMs = 0,
                                          !.messageCooldownMs = 0]
    /\ clock = 0
    /\ host = HostFlat

NextLookups ==
    \/ start /\ UNCHANGED history
    \/ \E a \in ToggleChannelActions("CHANNEL_CREATE") :
           onChannelCreate(a) /\ UNCHANGED history
    \/ \E a \in ToggleChannelActions("CHANNEL_UPDATE") :
           onChannelUpdate(a) /\ UNCHANGED history
    \/ \E e \in MessageEvents : onMessageCreate(e) /\ UNCHANGED history
    \/ \E k \in LookupKeys : \E v \in SettingValues(k) :
           ChangeSetting(k, v) /\ UNCHANGED history
    \/ \E h \in LookupHosts : HostChange(h) /\ UNCHANGED history

SpecLookups == InitLookups /\ [][NextLookups]_vars

-----------------------------------------------------------------------------
(* SpecThrottle: shouldThrottle called on its own, on every now and last   *)
(* up to MaxArg and every cooldown from the least integer of the           *)
(* conversion's width to twice past its greatest.                          *)

CooldownArgs == (0 - 2 ^ (WordBits - 1))..(2 ^ WordBits)

CallShouldThrottle(now, last, cooldownMs) ==
    /\ args' = [now |-> now, last |-> last, cooldownMs |-> cooldownMs,
                called |-> TRUE, result |-> shouldThrottle(now, last, cooldownMs)]
    /\ handler' = "shouldThrottle"
    /\ turn' = 1 - turn
    /\ UNCHANGED <<progVars, settings, clock, host, event, plays, effects, lookups,
                   subscribed, history>>

InitThrottle ==
    /\ Loaded
    /\ settings = DefaultSettings
    /\ clock = 0
    /\ host = HostFlat

NextThrottle ==
    \E now \in 0..MaxArg : \E last \in 0..MaxArg : \E cooldownMs \in CooldownArgs :
        CallShouldThrottle(now, last, cooldownMs)

SpecThrottle == InitThrottle /\ [][NextThrottle]_vars

-----------------------------------------------------------------------------
(* Vocabulary of the properties *)

Watched == Trim(Str(settings.categoryId))       \* the configured category
Recorded(m, k) == IF k \in DOMAIN m THEN m[k] ELSE Null
Without(m, k) == [c \in DOMAIN m \ {k} |-> m[c]]
ChannelHandlers == {"onChannelCreate", "onChannelUpdate"}

\* now - last is below the configured cooldown
CoolingDown(last, cooldownMs) == clock - last < Max(0, cooldownMs)

\* The playSound calls the settings ask for.
NewChannelSoundCall ==
    [kind |-> settings.newChannelSound, url |-> Str(settings.newChannelSoundUrl),
     volume |-> settings.newChannelVolume]

MessageSoundCall ==
    [kind |-> settings.messageSound, url |-> Str(settings.messageSoundUrl),
     volume |-> settings.messageVolume]

\* The call starts audio: a tone needs an AudioContext, a custom sound a URL.
Audible(call) ==
    \/ call.kind \in {"beep", "chime"} /\ host.audioContext
    \/ call.kind = "custom" /\ Trim(call.url) # <<>>

\* The step being taken runs a channel handler on a channel that has an id,
\* with the plugin enabled and a category configured.
HandlesChannel(h) ==
    /\ handler' = h
    /\ settings.enabled
    /\ Watched # <<>>
    /\ Truthy(extractChannel(event').id)

\* The step being taken calls refreshSnapshotIfNeeded.
RunsRefresh ==
    \/ handler' = "start"
    \/ handler' \in ChannelHandlers /\ settings.enabled

\* The last step called refreshSnapshotIfNeeded (the settings are those it read).
RanRefresh ==
    \/ handler = "start"
    \/ handler \in ChannelHandlers /\ settings.enabled

\* What the stores list for the guild of the configured category.
Listed ==
    LET guildId == getGuildIdForCategory(Watched)
    IN  IF guildId = Null THEN EmptyMap
        ELSE RecordAll(EmptyMap, getGuildChannels(guildId))

\* The channel of the step's event, or a key no map holds.
Carried == IF handler' \in ChannelHandlers THEN extractChannel(event').id ELSE Null

-----------------------------------------------------------------------------
(* C1: transition detection in onChannelUpdate *)

\* The update handler is given a non-category channel whose parent is the
\* watched category, with both toggles on.
MoveInEvent ==
    /\ HandlesChannel("onChannelUpdate")
    /\ settings.playOnMovedIntoCategory
    /\ settings.playOnNewChannel
    /\ extractChannel(event').type # CategoryType
    /\ extractChannel(event').parent_id = Watched

\* C1 as stated: if the parent recorded in the snapshot before the event is
\* not the watched category the update fires unless throttled, and if it is
\* the watched category the update does not fire.
C1_RecordedBeforeEvent ==
    [][ MoveInEvent =>
          LET prev == Recorded(parentByChannelId, extractChannel(event').id)
          IN  /\ (prev # Watched /\ ~CoolingDown(lastNewChannelSoundAt,
                                                  settings.newChannelCooldownMs))
                    => plays' = <<NewChannelSoundCall>>
              /\ prev = Watched => plays' = <<>> ]_vars

\* C1 amended: the parent that decides is the one the snapshot holds once the
\* handler's own refresh has run (the recorded one while snapCategoryId is
\* the configured category, the stores' listing after a rebuild).  If it is
\* not the watched category the update fires unless throttled, and stamps
\* lastNewChannelSoundAt; if it is the watched category nothing is played.
C1_TransitionDetection ==
    [][ MoveInEvent =>
          LET prev == Recorded(refreshSnapshotIfNeeded.map, extractChannel(event').id)
          IN  /\ (prev # Watched /\ ~CoolingDown(lastNewChannelSoundAt,
                                                  settings.newChannelCooldownMs))
                    => /\ plays' = <<NewChannelSoundCall>>
                       /\ lastNewChannelSoundAt' = clock
              /\ prev = Watched
                    => /\ plays' = <<>>
                       /\ lastNewChannelSoundAt' = lastNewChannelSoundAt ]_vars

\* An update has just fired for a channel reported under the watched category.
C1_Witness ==
    /\ handler = "onChannelUpdate"
    /\ plays = <<NewChannelSoundCall>>
    /\ extractChannel(event).parent_id = Watched
    /\ parentByChannelId[extractChannel(event).id] = Watched

-----------------------------------------------------------------------------
(* C7: the snapshot update contract *)

\* C7 as stated: every create or update event that carries a channel with
\* an id leaves that channel's snapshot entry equal to the event's parent id.
C7_EntryAlwaysSet ==
    [][ (HandlesChannel("onChannelCreate") \/ HandlesChannel("onChannelUpdate")) =>
          LET ch == extractChannel(event')
          IN  /\ ch.id \in DOMAIN parentByChannelId'
              /\ parentByChannelId'[ch.id] = ch.parent_id ]_vars

-----------------------------------------------------------------------------
(* C8: what the snapshot holds *)

\* C8 as stated: every channel in the snapshot is recorded under the
\* currently watched category.
C8_OnlyWatchedMembers ==
    \A k \in DOMAIN parentByChannelId : parentByChannelId[k] = Watched

\* C8 amended: the snapshot is the one of the category in snapCategoryId and
\* holds parents of any kind.  It is empty while snapCategoryId is empty,
\* snapCategoryId is a trimmed id, and right after a step that called the
\* refresh with a category configured snapCategoryId is that category.
C8_SnapshotOfRefreshedCategory ==
    /\ snapCategoryId = <<>> => parentByChannelId = EmptyMap
    /\ snapCategoryId = Trim(snapCategoryId)
    /\ (RanRefresh /\ Watched # <<>>) => snapCategoryId = Watched

\* The snapshot holds a channel that is not under the watched category.
C8_Witness ==
    /\ RanRefresh
    /\ Watched # <<>>
    /\ \E k \in DOMAIN parentByChannelId : parentByChannelId[k] # Watched

-----------------------------------------------------------------------------
(* C9: when the snapshot is rebuilt *)

\* C9 as stated, for the runs under a configured category: a channel handler
\* run under a category that differs from the one of the previous run clears
\* the snapshot and rebuilds it from the stores.
C9_RebuildWhenSettingDiffers ==
    [][ ( /\ handler' \in ChannelHandlers
          /\ settings.enabled
          /\ Watched # <<>>
          /\ seenCategoryId # Null
          /\ Watched # seenCategoryId )
        => /\ lookups' # <<>>
           /\ snapCategoryId' = Watched
           /\ Without(parentByChannelId', Carried) = Without(Listed, Carried) ]_vars

\* C9 amended: a step that calls the refresh clears and rebuilds exactly when
\* the trimmed configured id is not empty and differs from snapCategoryId,
\* the id of the last rebuild; otherwise it looks nothing up and keeps
\* snapCategoryId and every entry but the one of the event's channel.
C9_RebuildWhenIdDiffers ==
    [][ RunsRefresh =>
          IF Watched # <<>> /\ Watched # snapCategoryId
          THEN /\ lookups' # <<>>
               /\ snapCategoryId' = Watched
               /\ Without(parentByChannelId', Carried) = Without(Listed, Carried)
          ELSE /\ lookups' = <<>>
               /\ snapCategoryId' = snapCategoryId
               /\ Without(parentByChannelId', Carried)
                     = Without(parentByChannelId, Carried) ]_vars

\* A channel handler has just rebuilt the snapshot after a change of category.
C9_Witness ==
    /\ handler \in ChannelHandlers
    /\ lookups = <<"getChannel", "getChannels">>
    /\ seenCategoryId = Watched
    /\ snapCategoryId = Watched

-----------------------------------------------------------------------------
(* C10: the refresh is idempotent *)

\* C10: when two steps in a row call the refresh under the same non-empty
\* category, the second looks nothing up, keeps snapCategoryId and leaves the
\* snapshot as it was (but for the entry of the event's channel, which the
\* handler itself writes after the refresh).
C10_RefreshIdempotent ==
    [][ (RanRefresh /\ Watched # <<>> /\ RunsRefresh) =>
          /\ lookups' = <<>>
          /\ snapCategoryId' = snapCategoryId
          /\ Without(parentByChannelId', Carried) = Without(parentByChannelId, Carried)
          /\ Carried = Null => parentByChannelId' = parentByChannelId ]_vars

\* A handler ran right after another refresh under the same category, on an
\* event without a channel: nothing was looked up and the snapshot is full.
C10_Witness ==
    /\ handler \in ChannelHandlers
    /\ settings.enabled
    /\ Watched # <<>>
    /\ seenCategoryId = Watched
    /\ snapCategoryId = Watched
    /\ lookups = <<>>
    /\ parentByChannelId # EmptyMap

-----------------------------------------------------------------------------
(* C2: cooldown spacing *)

\* C2: a step that fires an alert stamps the timestamp of its category with
\* the clock, and the clock is then at least the category's configured
\* cooldown (no less than 0) past the previous stamp, the time of the
\* previous firing of that category.
C2_CooldownSpacing ==
    [][ /\ (handler' \in ChannelHandlers /\ plays' # <<>>)
            => /\ lastNewChannelSoundAt' = clock
               /\ clock - lastNewChannelSoundAt >= Max(0, settings.newChannelCooldownMs)
        /\ (handler' = "onMessageCreate" /\ plays' # <<>>)
            => /\ lastMessageSoundAt' = clock
               /\ clock - lastMessageSoundAt >= Max(0, settings.messageCooldownMs)
      ]_vars

\* A new-channel alert has fired under a cooldown of one slider step, after
\* a message alert had fired too.
C2_Witness ==
    /\ handler \in ChannelHandlers
    /\ plays # <<>>
    /\ settings.newChannelCooldownMs = CooldownStep
    /\ lastNewChannelSoundAt = clock
    /\ lastMessageSoundAt = clock

-----------------------------------------------------------------------------
(* C3: shouldThrottle *)

\* C3: the result is true iff now - last < cooldownMs when cooldownMs >= 0,
\* and iff now - last < 0 when cooldownMs < 0.
C3_ThrottleIffWithinCooldown ==
    args.called =>
        IF args.cooldownMs >= 0
        THEN args.result <=> (args.now - args.last < args.cooldownMs)
        ELSE args.result <=> (args.now - args.last < 0)

-----------------------------------------------------------------------------
(* C4: a channel created under the watched category *)

\* The create handler is given a non-category channel under the watched
\* category, with the plugin enabled, playOnNewChannel on and no cooldown.
CreatedUnderWatched ==
    /\ HandlesChannel("onChannelCreate")
    /\ settings.playOnNewChannel
    /\ settings.newChannelCooldownMs = 0
    /\ extractChannel(event').parent_id = Watched
    /\ extractChannel(event').type # CategoryType

\* C4 as stated: such an event makes exactly one play call, with the
\* configured new-channel sound, and stamps lastNewChannelSoundAt.
C4_CreatePlaysOnce ==
    [][ CreatedUnderWatched =>
          /\ plays' = <<NewChannelSoundCall>>
          /\ lastNewChannelSoundAt' = clock ]_vars

\* C4 amended: it does so provided the clock is not behind
\* lastNewChannelSoundAt; when the clock has been set back behind it, the
\* event is throttled: nothing is played and the timestamp stays.
C4_CreatePlaysOnceUnlessClockBehind ==
    [][ CreatedUnderWatched =>
          IF clock >= lastNewChannelSoundAt
          THEN /\ plays' = <<NewChannelSoundCall>>
               /\ lastNewChannelSoundAt' = clock
          ELSE /\ plays' = <<>>
               /\ lastNewChannelSoundAt' = lastNewChannelSoundAt ]_vars

\* The create handler has just played for a channel under the watched
\* category, with no cooldown, at a time past the start.
C4_Witness ==
    /\ handler = "onChannelCreate"
    /\ settings.newChannelCooldownMs = 0
    /\ extractChannel(event).parent_id = Watched
    /\ plays = <<NewChannelSoundCall>>
    /\ lastNewChannelSoundAt = clock
    /\ clock > 0

-----------------------------------------------------------------------------
(* C5: when the timestamps are written *)

\* C5 as stated, on a host that has an AudioContext: a step that changes a
\* timestamp starts audio.
C5_StampOnlyWithAudio ==
    [][ ( /\ host.audioContext
          /\ \/ lastNewChannelSoundAt' # lastNewChannelSoundAt
             \/ lastMessageSoundAt' # lastMessageSoundAt )
        => effects' # <<>> ]_vars

\* C5 amended: a step that changes a timestamp is a run of a handler of that
\* category that calls playSound once, with the category's configured
\* sound; the call starts audio iff the kind is a tone and the host has an
\* AudioContext, or the kind is custom and the URL is not blank.
C5_StampOnlyWithPlayCall ==
    [][ /\ lastNewChannelSoundAt' # lastNewChannelSoundAt
            => handler' \in ChannelHandlers /\ plays' = <<NewChannelSoundCall>>
        /\ lastMessageSoundAt' # lastMessageSoundAt
            => handler' = "onMessageCreate" /\ plays' = <<MessageSoundCall>>
        /\ plays' # <<>> => (effects' # <<>> <=> Audible(plays'[1]))
        /\ plays' = <<>> => effects' = <<>> ]_vars

\* A handler has stamped lastNewChannelSoundAt and called playSound, and no
\* audio started.
C5_Witness ==
    /\ handler \in ChannelHandlers
    /\ plays = <<NewChannelSoundCall>>
    /\ effects = <<>>
    /\ lastNewChannelSoundAt = clock
    /\ clock > 0

-----------------------------------------------------------------------------
(* C6: the timestamps never decrease *)

\* C6: no step lowers lastNewChannelSoundAt or lastMessageSoundAt, whatever
\* the clock reads.
C6_StampsNeverDecrease ==
    [][ /\ lastNewChannelSoundAt' >= lastNewChannelSoundAt
        /\ lastMessageSoundAt' >= lastMessageSoundAt ]_vars

\* A handler has run on an alert-worthy event, with no cooldown, while the
\* clock was behind the timestamp of its category.
C6_Witness ==
    /\ handler = "onChannelCreate"
    /\ extractChannel(event).parent_id = Watched
    /\ settings.newChannelCooldownMs = 0
    /\ clock < lastNewChannelSoundAt

-----------------------------------------------------------------------------
(* C11: the refresh heals itself *)

\* C11 as stated: when a refresh has left the snapshot empty and the stores
\* can now resolve the guild of the watched category, a run of a channel
\* handler makes the refresh up: the snapshot then holds the guild's channels
\* (the handler writes the entry of the event's channel itself).
C11_LaterRunRebuilds ==
    [][ ( /\ handler' \in ChannelHandlers
          /\ settings.enabled
          /\ Watched # <<>>
          /\ parentByChannelId = EmptyMap
          /\ getGuildIdForCategory(Watched) # Null )
        => Without(parentByChannelId', Carried) = Without(Listed, Carried) ]_vars

-----------------------------------------------------------------------------
(* C12: a category never alerts *)

\* C12: a create or update event whose channel has the type of a category
\* makes no play call, starts no audio and leaves lastNewChannelSoundAt as
\* it was, whatever the parents, the snapshot and the settings are.
C12_CategoryNeverAlerts ==
    [][ ( /\ handler' \in ChannelHandlers
          /\ extractChannel(event').type = CategoryType )
        => /\ plays' = <<>>
           /\ effects' = <<>>
           /\ lastNewChannelSoundAt' = lastNewChannelSoundAt ]_vars

\* The update handler has run, not throttled and with both toggles on, on a
\* category-typed channel that the event puts under the watched category and
\* that the stores list under another one.
C12_Witness ==
    /\ handler = "onChannelUpdate"
    /\ settings.playOnNewChannel
    /\ settings.playOnMovedIntoCategory
    /\ extractChannel(event).type = CategoryType
    /\ extractChannel(event).parent_id = Watched
    /\ Recorded(Listed, extractChannel(event).id) \notin {Null, Watched}
    /\ lookups # <<>>
    /\ ~CoolingDown(lastNewChannelSoundAt, settings.newChannelCooldownMs)
    /\ plays = <<>>

-----------------------------------------------------------------------------
(* C18: both toggles gate a move *)

\* C18: an update event delivered while playOnMovedIntoCategory or
\* playOnNewChannel is off makes no play call, starts no audio and leaves
\* lastNewChannelSoundAt as it was; and when the handler gets as far as the
\* channel (plugin enabled, a category configured, a channel with an id) it
\* still overwrites the channel's snapshot entry with the event's parent.
C18_BothGatesRequired ==
    [][ ( /\ handler' = "onChannelUpdate"
          /\ ~settings.playOnMovedIntoCategory \/ ~settings.playOnNewChannel )
        => /\ plays' = <<>>
           /\ effects' = <<>>
           /\ lastNewChannelSoundAt' = lastNewChannelSoundAt
           /\ HandlesChannel("onChannelUpdate") =>
                 LET ch == extractChannel(event')
                 IN  /\ ch.id \in DOMAIN parentByChannelId'
                     /\ parentByChannelId'[ch.id] = ch.parent_id ]_vars

\* With exactly one toggle off, the update handler has run, not throttled,
\* on a channel that the event puts under the watched category and that the
\* rebuilt snapshot held under another one: nothing was played and the entry
\* now holds the watched category.
C18_Witness ==
    /\ handler = "onChannelUpdate"
    /\ settings.enabled
    /\ settings.playOnMovedIntoCategory # settings.playOnNewChannel
    /\ extractChannel(event).type # CategoryType
    /\ extractChannel(event).parent_id = Watched
    /\ Recorded(Listed, extractChannel(event).id) \notin {Null, Watched}
    /\ lookups # <<>>
    /\ ~CoolingDown(lastNewChannelSoundAt, settings.newChannelCooldownMs)
    /\ plays = <<>>
    /\ Recorded(parentByChannelId, extractChannel(event).id) = Watched

-----------------------------------------------------------------------------
(* C19: no alert for a channel that was already inside *)

\* C19 as stated: with the plugin enabled and the watched category
\* unchanged, an update event plays nothing when the last earlier create or
\* update event delivered for its channel reported the watched category as
\* the channel's parent.
C19_NoFalseMoveIn ==
    [][ ( /\ handler' = "onChannelUpdate"
          /\ settings.enabled
          /\ Watched # <<>>
          /\ Recorded(lastReported, extractChannel(event').id) = Watched )
        => plays' = <<>> ]_vars

-----------------------------------------------------------------------------
(* C13: bots are ignored *)

\* C13: a message event whose author is flagged as a bot, delivered while
\* ignoreBots is on, makes no play call, starts no audio and leaves
\* lastMessageSoundAt as it was, whatever the other settings, the focus and
\* the selected channel are.
C13_BotsNeverAlert ==
    [][ ( /\ handler' = "onMessageCreate"
          /\ settings.ignoreBots
          /\ event'.message.author.bot )
        => /\ plays' = <<>>
           /\ effects' = <<>>
           /\ lastMessageSoundAt' = lastMessageSoundAt ]_vars

\* A bot's confirmed message in a claimed channel has been handled with
\* ignoreBots on, while nothing else stood in the way of an alert: the
\* plugin and the message toggle on, the window unfocused, another channel
\* selected, the cooldown over.
C13_Witness ==
    /\ handler = "onMessageCreate"
    /\ event = [GoodMessage EXCEPT !.message.author.bot = TRUE]
    /\ settings.ignoreBots
    /\ settings.enabled
    /\ settings.playOnMessageInClaimed
    /\ ~host.hasFocus
    /\ host.selectedChannelId # event.channelId
    /\ ~CoolingDown(lastMessageSoundAt, settings.messageCooldownMs)
    /\ plays = <<>>

-----------------------------------------------------------------------------
(* C14: only when unfocused *)

\* The event is a confirmed message: a MESSAGE_CREATE that is not
\* optimistic and carries a message that is not being sent.
Confirmed(e) ==
    /\ e.type = "MESSAGE_CREATE"
    /\ ~e.optimistic
    /\ e.message.present
    /\ e.message.state # "SENDING"

\* The stores know the channel, its text carries the marker and, when claims
\* are scoped, it lies under the watched category.
ClaimedByMarker(id) ==
    LET ch == IF id \in DOMAIN host.channelStore THEN host.channelStore[id] ELSE Null
        marker == Trim(Str(settings.claimEmoji))
        parts == CASE settings.claimWhere = "name"  -> {"name"}
                   [] settings.claimWhere = "topic" -> {"topic"}
                   [] OTHER                         -> {"name", "topic"}
    IN  /\ id \in DOMAIN host.channelStore
        /\ marker # <<>>
        /\ \E f \in parts : ch[f] # Null /\ Includes(ch[f], marker)
        /\ (settings.claimOnlyInWatchedCategory /\ Watched # <<>>)
              => ch.parent_id = Watched

\* The message handler is given, with onlyWhenUnfocused on, a confirmed
\* message of an author who is neither a bot nor the user, in a claimed
\* channel.
UnfocusedOnlyMessage ==
    /\ handler' = "onMessageCreate"
    /\ settings.onlyWhenUnfocused
    /\ Confirmed(event')
    /\ ~event'.message.author.bot
    /\ event'.message.author.id # host.currentUserId
    /\ event'.channelId # Null
    /\ ClaimedByMarker(event'.channelId)

\* C14: such a message makes no play call while the window is focused; while
\* it is unfocused, with the plugin enabled, the message toggle on, another
\* channel (or none) selected and the cooldown over, it makes exactly one
\* play call, with the message sound's kind, URL and volume, and stamps
\* lastMessageSoundAt.
C14_OnlyWhenUnfocused ==
    [][ UnfocusedOnlyMessage =>
          /\ host.hasFocus =>
                /\ plays' = <<>>
                /\ lastMessageSoundAt' = lastMessageSoundAt
          /\ ( /\ ~host.hasFocus
               /\ settings.enabled
               /\ settings.playOnMessageInClaimed
               /\ host.selectedChannelId # event'.channelId
               /\ ~CoolingDown(lastMessageSoundAt, settings.messageCooldownMs) )
              => /\ plays' = <<MessageSoundCall>>
                 /\ lastMessageSoundAt' = clock ]_vars

\* With onlyWhenUnfocused on and the window unfocused, a message in the
\* claimed channel has just played the message sound.
C14_Witness ==
    /\ handler = "onMessageCreate"
    /\ settings.onlyWhenUnfocused
    /\ ~host.hasFocus
    /\ event = GoodMessage
    /\ ClaimedByMarker(event.channelId)
    /\ plays = <<MessageSoundCall>>
    /\ lastMessageSoundAt = clock

-----------------------------------------------------------------------------
(* C15: the scope of the claims *)

\* isClaimedChannel is called on a channel the stores know, whose name holds
\* the (non-empty, trimmed) marker and whose parent is not the configured
\* watched category, with the name in the search scope.
MarkedOutsideWatched(id) ==
    /\ id \in DOMAIN host.channelStore
    /\ Trim(Str(settings.claimEmoji)) # <<>>
    /\ host.channelStore[id].name # Null
    /\ Includes(host.channelStore[id].name, Trim(Str(settings.claimEmoji)))
    /\ Watched # <<>>
    /\ host.channelStore[id].parent_id # Watched
    /\ settings.claimWhere \in {"name", "either"}

\* C15: on such a channel isClaimedChannel returns false when
\* claimOnlyInWatchedCategory is on and true when it is off.
C15_ClaimScoping ==
    [][ (handler' = "isClaimedChannel" /\ MarkedOutsideWatched(args'.channelId))
        => (args'.result <=> ~settings.claimOnlyInWatchedCategory) ]_vars

\* With the scope on, isClaimedChannel has just refused a channel whose name
\* holds the marker and which lies under another category than the watched.
C15_Witness ==
    /\ handler = "isClaimedChannel"
    /\ args.called
    /\ MarkedOutsideWatched(args.channelId)
    /\ host.channelStore[args.channelId].parent_id # Null
    /\ settings.claimOnlyInWatchedCategory
    /\ ~args.result

-----------------------------------------------------------------------------
(* C16: what a failed lookup does *)

\* What a resolved guild lists: the snapshot a successful refresh builds.
ListedWhenResolved ==
    RecordAll(EmptyMap, [i \in 1..Len(Listing) |-> Unwrap(Listing[i])])

\* The step being taken runs the update handler, whose refresh rebuilds the
\* snapshot and cannot resolve the guild of the watched category.
UpdateOnUnresolvedGuild ==
    /\ handler' = "onChannelUpdate"
    /\ settings.enabled
    /\ Watched # <<>>
    /\ Watched # snapCategoryId
    /\ getGuildIdForCategory(Watched) = Null

\* Nothing but the author stands between the message and an alert.
AlertButForAuthor(e) ==
    /\ settings.enabled
    /\ Confirmed(e)
    /\ ~(settings.ignoreBots /\ e.message.author.bot)
    /\ e.channelId # Null
    /\ settings.playOnMessageInClaimed
    /\ ClaimedByMarker(e.channelId)
    /\ ~(settings.onlyWhenUnfocused /\ host.hasFocus)
    /\ ~(settings.muteWhenViewingChannel /\ host.selectedChannelId = e.channelId)
    /\ ~CoolingDown(lastMessageSoundAt, settings.messageCooldownMs)

\* C16 as stated: a failed lookup never adds a notification.  A message in
\* a channel the stores do not know plays nothing; the user's own message
\* under ignoreSelf plays nothing when the current user is unavailable, as
\* it would not with the user known; and an update for a channel that the
\* resolved guild lists under the watched category plays nothing when the
\* guild cannot be resolved, as it would not with the guild resolved.
C16_FailClosed ==
    [][ /\ ( /\ handler' = "onMessageCreate"
             /\ event'.channelId \notin DOMAIN host.channelStore )
            => plays' = <<>>
        /\ ( /\ handler' = "onMessageCreate"
             /\ settings.ignoreSelf
             /\ ~Truthy(host.currentUserId)
             /\ event'.message.author.id = UserMe )
            => plays' = <<>>
        /\ ( /\ UpdateOnUnresolvedGuild
             /\ Recorded(ListedWhenResolved, extractChannel(event').id) = Watched )
            => plays' = <<>> ]_vars

\* C16 amended: a channel the stores do not know fails closed, the two
\* other lookups fail open.  A message in an unknown channel plays nothing.
\* With the current user unavailable, ignoreSelf suppresses nothing: a
\* message that nothing but its author could keep from alerting plays the
\* message sound, the user's own included.  With the guild unresolvable the
\* refresh leaves the snapshot empty, so an update that reports a text
\* channel under the watched category, both toggles on and the cooldown
\* over, plays the new-channel sound whether or not the channel was inside
\* before.
C16_LookupFailures ==
    [][ /\ ( /\ handler' = "onMessageCreate"
             /\ event'.channelId \notin DOMAIN host.channelStore )
            => /\ plays' = <<>>
               /\ lastMessageSoundAt' = lastMessageSoundAt
        /\ ( /\ handler' = "onMessageCreate"
             /\ ~Truthy(host.currentUserId)
             /\ AlertButForAuthor(event') )
            => /\ plays' = <<MessageSoundCall>>
               /\ lastMessageSoundAt' = clock
        /\ ( /\ UpdateOnUnresolvedGuild
             /\ MoveInEvent
             /\ ~CoolingDown(lastNewChannelSoundAt, settings.newChannelCooldownMs) )
            => /\ plays' = <<NewChannelSoundCall>>
               /\ lastNewChannelSoundAt' = clock
               /\ Without(parentByChannelId', Carried) = EmptyMap ]_vars

\* With the current user unavailable and ignoreSelf on, the user's own
\* message in a claimed channel has just played the message sound.
C16_Witness ==
    /\ handler = "onMessageCreate"
    /\ settings.ignoreSelf
    /\ ~Truthy(host.currentUserId)
    /\ event.message.author.id = UserMe
    /\ plays = <<MessageSoundCall>>

-----------------------------------------------------------------------------
(* C17: a disabled plugin does nothing *)

\* C17: while `enabled` is off, a run of any of the three handlers makes no
\* play call, starts no audio, looks nothing up and leaves the snapshot,
\* snapCategoryId and both timestamps as they were.
C17_DisabledSkips ==
    [][ ( /\ handler' \in ChannelHandlers \cup {"onMessageCreate"}
          /\ ~settings.enabled )
        => /\ plays' = <<>>
           /\ effects' = <<>>
           /\ lookups' = <<>>
           /\ parentByChannelId' = parentByChannelId
           /\ snapCategoryId' = snapCategoryId
           /\ lastNewChannelSoundAt' = lastNewChannelSoundAt
           /\ lastMessageSoundAt' = lastMessageSoundAt ]_vars

\* While disabled, the update handler has been given a channel under the
\* watched category, which is not the category of the snapshot, and the
\* snapshot still holds the channel under another parent.
C17_Witness ==
    /\ handler = "onChannelUpdate"
    /\ ~settings.enabled
    /\ Watched # <<>>
    /\ Watched # snapCategoryId
    /\ snapCategoryId # <<>>
    /\ extractChannel(event).parent_id = Watched
    /\ Recorded(parentByChannelId, extractChannel(event).id) \notin {Null, Watched}
    /\ plays = <<>>

-----------------------------------------------------------------------------
(* C20: the two kinds of alert are independent *)

\* The message handler is given a message that nothing but the message
\* cooldown could keep from alerting.
AlertingMessage ==
    /\ handler' = "onMessageCreate"
    /\ AlertButForAuthor(event')
    /\ ~( /\ settings.ignoreSelf
          /\ Truthy(host.currentUserId)
          /\ event'.message.author.id = host.currentUserId )

\* The create handler is given a channel that nothing but the new-channel
\* cooldown could keep from alerting.
AlertingChannel ==
    /\ HandlesChannel("onChannelCreate")
    /\ settings.playOnNewChannel
    /\ extractChannel(event').parent_id = Watched
    /\ extractChannel(event').type # CategoryType
    /\ ~CoolingDown(lastNewChannelSoundAt, settings.newChannelCooldownMs)

\* C20: a run of the message handler leaves the snapshot, snapCategoryId
\* and lastNewChannelSoundAt as they were, and a run of a channel handler
\* leaves lastMessageSoundAt as it was; so a message whose own cooldown is
\* over alerts whatever lastNewChannelSoundAt is, and a created channel
\* whose own cooldown is over alerts whatever lastMessageSoundAt is.
C20_CategoriesIndependent ==
    [][ /\ handler' = "onMessageCreate"
            => /\ parentByChannelId' = parentByChannelId
               /\ snapCategoryId' = snapCategoryId
               /\ lastNewChannelSoundAt' = lastNewChannelSoundAt
        /\ handler' \in ChannelHandlers
            => lastMessageSoundAt' = lastMessageSoundAt
        /\ AlertingMessage => plays' = <<MessageSoundCall>>
        /\ AlertingChannel => plays' = <<NewChannelSoundCall>> ]_vars

\* A message has just alerted at the very time of a new-channel alert, while
\* the new-channel cooldown is running.
C20_Witness ==
    /\ handler = "onMessageCreate"
    /\ plays = <<MessageSoundCall>>
    /\ lastMessageSoundAt = clock
    /\ lastNewChannelSoundAt = clock
    /\ clock > 0
    /\ settings.newChannelCooldownMs > 0

====
